---- MODULE Spec2Model ----
(***************************************************************************)
(* A model of tw-pnl.py: the FIFO lot ledger (fifo_add) and the loop of    *)
(* check() that turns the rows of a trade history into fifo_add calls.     *)
(*                                                                         *)
(* A lot is the Python list [price, quantity], here the tuple              *)
(* <<price, quantity>> (lot[1] is Python's lot[0], lot[2] is lot[1]).      *)
(* The ledger map `fifos` is a Python dict: a function whose DOMAIN is the *)
(* set of keys present, so an absent key and a key that maps to an empty   *)
(* deque are different states.                                             *)
(* Money and prices are integers: on the integer inputs drawn here the     *)
(* float arithmetic of the program is exact.                               *)
(***************************************************************************)
EXTENDS Integers, Sequences, FiniteSets, TLC

VARIABLES
    fifos,               \* check(): the ledger map
    local_pnl,           \* the value the last fifo_add call returned
    pnl_stocks,          \* check(): realized PnL of stock trades
    pnl,                 \* check(): realized PnL of everything else
    check_account_ref,   \* check(): the account reference of the first row
    i,                   \* check(): the loop index, len(wk) - 1 down to 0
    pc,                  \* where the run is: "loop", "aborted", "done"
    row,                 \* the row the last loop iteration read
    call,                \* the arguments of the last fifo_add call
    before,              \* the ledger map on entry to that call
    net,                 \* per asset, the sum of the quantities passed so far
    book,                \* per asset, the sum of the values returned plus
                         \* the sum of quantity * price of the calls so far
    returned,            \* the values returned in this run, summed per kind
                         \* of row: <<stock rows, other rows>>
    wk_len,              \* check(): len(wk)
    wk_times,            \* check(): the Date/Time column, by row index
    datetime,            \* check(): the Date/Time of the row read last
    log,                 \* the rows read in this run, in the order read
    files                \* main(): the files check() has returned from

ledgerVars == <<fifos, local_pnl, call, before, net, book>>

checkVars ==
    <<pnl_stocks, pnl, check_account_ref, i, pc, row, returned, wk_len,
      wk_times, datetime, log, files>>

vars == <<fifos, local_pnl, pnl_stocks, pnl, check_account_ref, i, pc, row,
          call, before, net, book, returned, wk_len, wk_times, datetime, log,
          files>>

(* ------------------------------ bounds -------------------------------- *)

\* Largest magnitude of a quantity passed to fifo_add.
MaxQty == 3

\* Prices are drawn from 1..MaxPrice.
MaxPrice == 2

\* Largest number of open lots in the queue of one asset.
MaxLots == 2

\* The Quantity of a trade row is drawn from 1..MaxRowQty, the quantities
\* of the two-asset calls from -MaxRowQty..MaxRowQty.
MaxRowQty == 2

\* The asset keys the ledger calls are made on.  A key is the tuple of the
\* fields the program formats into the key string: <<symbol>> for a stock,
\* <<symbol, callput, strike, expire>> for an option.
Assets == {<<"AAPL">>}

Prices == 1..MaxPrice

NonZeroQuantities == (-MaxQty..MaxQty) \ {0}

AllQuantities == -MaxQty..MaxQty

(* --------------------------- Python helpers --------------------------- *)

abs(x) == IF x < 0 THEN -x ELSE x

sign(x) == IF x >= 0 THEN 1 ELSE -1

\* deque.pop() in place of popleft(): the youngest lot goes first
popleft_Pop(fifo) == SubSeq(fifo, 1, Len(fifo) - 1)

\* deque.popleft()
popleft(fifo) == Tail(fifo)

\* deque.appendleft(lot) in place of append()
append_Left(fifo, lot) == <<lot>> \o fifo

\* deque.append(lot)
append(fifo, lot) == Append(fifo, lot)

\* fifos = {asset: fifo}: the other keys are lost
SetFifo_Alone(map, asset, fifo) == [a \in {asset} |-> fifo]

\* fifos[asset] = fifo (the deque is shared: a change of fifo shows in fifos)
SetFifo(map, asset, fifo) ==
    [a \in (DOMAIN map) \cup {asset} |-> IF a = asset THEN fifo ELSE map[a]]

\* the key is kept with an empty deque in place of del fifos[asset]
DelFifo_Keep(map, asset) == SetFifo(map, asset, <<>>)

\* the key is deleted only when other keys remain
DelFifo_Last(map, asset) ==
    IF DOMAIN map = {asset} THEN SetFifo(map, asset, <<>>)
    ELSE [a \in (DOMAIN map) \ {asset} |-> map[a]]

\* del fifos[asset]
DelFifo(map, asset) == [a \in (DOMAIN map) \ {asset} |-> map[a]]

\* fifos.get(asset) == None  ->  fifos[asset] = deque()
GetOrCreate(map, asset) ==
    IF asset \in DOMAIN map THEN map ELSE SetFifo(map, asset, <<>>)

(* ------------------------------ fifo_add ------------------------------ *)

\* line 113: the front lot and the incoming quantity point the same way
SameDirection(front, quantity) == sign(front[2]) = sign(quantity)

\* > in place of >= on line 115
Absorbs_Strict(front, quantity) == abs(front[2]) > abs(quantity)

\* line 115: the front lot absorbs the whole incoming quantity
Absorbs(front, quantity) == abs(front[2]) >= abs(quantity)

\* the two prices swapped on line 116
AbsorbPnl_Swapped(front, quantity, price) == quantity * (price - front[1])

\* line 116
AbsorbPnl(front, quantity, price) == quantity * (front[1] - price)

\* -= in place of += on line 117
AbsorbQty_Minus(front, quantity) == front[2] - quantity

\* line 117
AbsorbQty(front, quantity) == front[2] + quantity

\* the consumed lot's PnL with the price difference reversed
ConsumePnl_Swapped(front, price) == front[2] * (front[1] - price)

\* line 124
ConsumePnl(front, price) == front[2] * (price - front[1])

\* line 125 left out: the incoming quantity is not reduced
ConsumeQty_Keep(front, quantity) == quantity

\* the consumed lot's quantity taken off the remainder instead of added
ConsumeQty_Minus(front, quantity) == quantity - front[2]

\* line 125
ConsumeQty(front, quantity) == quantity + front[2]

\* lines 118-122: the front lot after absorption; returns the map and the pnl
AbsorbFront(map, fifo, quantity, price, asset, sofar) ==
    LET front == fifo[1]
        pnl2  == sofar + AbsorbPnl(front, quantity, price)
        lot2  == <<front[1], AbsorbQty(front, quantity)>>
    IN  IF lot2[2] = 0
        THEN IF Len(popleft(fifo)) = 0
             THEN [fifos |-> DelFifo(map, asset), pnl |-> pnl2]
             ELSE [fifos |-> SetFifo(map, asset, popleft(fifo)), pnl |-> pnl2]
        ELSE [fifos |-> SetFifo(map, asset, <<lot2>> \o Tail(fifo)), pnl |-> pnl2]

\* lines 127-128
AppendLot(map, fifo, quantity, price, asset, sofar) ==
    [fifos |-> SetFifo(map, asset, append(fifo, <<price, quantity>>)), pnl |-> sofar]

\* lines 112-128: the while loop and what follows it
RECURSIVE FifoLoop(_, _, _, _, _, _)
FifoLoop(map, fifo, quantity, price, asset, sofar) ==
    IF Len(fifo) > 0
    THEN IF SameDirection(fifo[1], quantity)
         THEN AppendLot(map, fifo, quantity, price, asset, sofar)
         ELSE IF Absorbs(fifo[1], quantity)
              THEN AbsorbFront(map, fifo, quantity, price, asset, sofar)
              ELSE FifoLoop(map, popleft(fifo), ConsumeQty(fifo[1], quantity),
                            price, asset, sofar + ConsumePnl(fifo[1], price))
    ELSE AppendLot(map, fifo, quantity, price, asset, sofar)

\* fifo_add(fifos, quantity, price, asset): the ledger map afterwards and
\* the value returned
fifo_add(map, quantity, price, asset) ==
    LET m == GetOrCreate(map, asset)
    IN  FifoLoop(m, m[asset], quantity, price, asset, 0)

(* ------------------------------- state -------------------------------- *)

EmptyMap == [a \in {} |-> <<>>]

NoCall == [kind |-> "none", asset |-> <<>>, quantity |-> 0, price |-> 0]

\* A missing CSV cell is the float nan; a number x is <<x>>.
NaN == <<>>

Num(x) == <<x>>

\* w + 1/2, a quantity that is no integer
Half(w) == <<w, 1>>

NoRow ==
    [tcode |-> "", tsubcode |-> "", symbol |-> "", buysell |-> "nan",
     openclose |-> "nan", quantity |-> NaN, expire |-> "nan", strike |-> NaN,
     callput |-> "nan", price |-> NaN, fees |-> 0, amount |-> 0,
     description |-> "", account_ref |-> ""]

\* sum of the quantities passed to fifo_add for an asset so far
NetOf(asset) == IF asset \in DOMAIN net THEN net[asset] ELSE 0

\* the values returned plus quantity * price of the calls, for an asset
BookOf(asset) == IF asset \in DOMAIN book THEN book[asset] ELSE 0

\* The queue of an asset, empty when the key is absent.
Queue(map, asset) == IF asset \in DOMAIN map THEN map[asset] ELSE <<>>

\* The ledger on its own: an empty ledger map, no run of check() in progress.
Init ==
    /\ fifos = EmptyMap
    /\ call = NoCall
    /\ before = EmptyMap
    /\ local_pnl = 0
    /\ net = EmptyMap
    /\ pnl_stocks = 0
    /\ pnl = 0
    /\ check_account_ref = "None"
    /\ i = 0
    /\ pc = "fifo_add"
    /\ row = NoRow
    /\ book = EmptyMap
    /\ returned = <<0, 0>>
    /\ wk_len = 0
    /\ wk_times = <<>>
    /\ datetime = 0
    /\ log = <<>>
    /\ files = 0

\* One call fifo_add(fifos, quantity, price, asset).  call, before and net
\* record the call, the ledger map before it and the signed quantities
\* passed so far.
FifoAdd(asset, quantity, price) ==
    LET r == fifo_add(fifos, quantity, price, asset)
    IN  /\ Len(Queue(r.fifos, asset)) <= MaxLots
        /\ fifos' = r.fifos
        /\ local_pnl' = r.pnl
        /\ before' = fifos
        /\ call' = [kind |-> "fifo_add", asset |-> asset,
                    quantity |-> quantity, price |-> price]
        /\ net' = SetFifo(net, asset, NetOf(asset) + quantity)
        /\ book' = SetFifo(book, asset, BookOf(asset) + r.pnl + quantity * price)
        /\ UNCHANGED checkVars

\* fifo_add on a non-zero quantity
Trade ==
    \E asset \in Assets, quantity \in NonZeroQuantities, price \in Prices :
        FifoAdd(asset, quantity, price)

\* fifo_add on any quantity, zero included
TradeAny ==
    \E asset \in Assets, quantity \in AllQuantities, price \in Prices :
        FifoAdd(asset, quantity, price)

Next == Trade

Spec == Init /\ [][Next]_vars

NextZero == TradeAny

SpecZero == Init /\ [][NextZero]_vars

\* fifo_add calls for two assets in one ledger map
TwoAssets == {<<"AAPL">>, <<"SPY">>}

TwoQuantities == (-MaxRowQty..MaxRowQty) \ {0}

TwoPrices == {1, MaxPrice}

\* the lots of both assets together
Lots(map) == Len(Queue(map, <<"AAPL">>)) + Len(Queue(map, <<"SPY">>))

TradeTwo ==
    \E asset \in TwoAssets, quantity \in TwoQuantities, price \in TwoPrices :
        /\ Lots(fifo_add(fifos, quantity, price, asset).fifos) <= MaxLots
        /\ FifoAdd(asset, quantity, price)

NextTwo == TradeTwo

SpecTwo == Init /\ [][NextTwo]_vars

(* ------------------------------- check() ------------------------------ *)

\* The subcodes that carry no usable Buy/Sell (lines 65 and 257).
ExpirationSubcodes == {"Expiration", "Exercise", "Assignment"}

TradeSubcodes == {"Sell to Open", "Buy to Close", "Buy to Open", "Sell to Close"}

MoneySubcodes ==
    {"Transfer", "Deposit", "Credit Interest", "Balance Adjustment", "Fee",
     "Withdrawal", "Dividend"}

\* check_tcode: TRUE when it raises
check_tcode(tcode, tsubcode, description) ==
    \/ tcode \notin {"Money Movement", "Trade", "Receive Deliver"}
    \/ /\ tcode = "Money Movement"
       /\ \/ tsubcode \notin MoneySubcodes
          \/ /\ tsubcode = "Balance Adjustment"
             /\ description /= "Regulatory fee adjustment"
    \/ tcode = "Trade" /\ tsubcode \notin TradeSubcodes
    \/ /\ tcode = "Receive Deliver"
       /\ tsubcode \notin TradeSubcodes \cup ExpirationSubcodes

\* check_param: TRUE when it raises
check_param(buysell, openclose, callput) ==
    \/ buysell \notin {"nan", "Buy", "Sell"}
    \/ openclose \notin {"nan", "Open", "Close"}
    \/ callput \notin {"nan", "C", "P"}

\* check_trade never raises
check_trade_Off(tsubcode, check_amount, amount) == FALSE

\* check_trade: TRUE when it raises.  The amounts of the model are integers
\* far below 1e9, so math.isclose(a, b, abs_tol=0.00001) is a = b.
check_trade(tsubcode, check_amount, amount) ==
    IF tsubcode \notin ExpirationSubcodes
    THEN check_amount /= amount
    ELSE amount /= 0 \/ check_amount /= 0

WellKnownETFs ==
    {"DXJ", "EEM", "EFA", "EWZ", "FEZ", "FXB", "FXE", "FXI", "GDX", "GDXJ", "GLD",
     "HYG", "IEF", "IWM", "IYR", "KRE", "OIH", "QQQ", "RSX", "SLV", "SMH", "SPY",
     "TLT", "UNG", "USO", "VXX", "XBI", "XHB", "XLB", "XLE", "XLF", "XLI", "XLK",
     "XLP", "XLU", "XLV", "XME", "XOP", "XRT"}

WellKnownStocks == {"M", "AAPL", "TSLA"}

\* is_stock(symbol) with conservative=True raises on a symbol it does not know
is_stock_raises(symbol) == symbol \notin WellKnownETFs \cup WellKnownStocks

\* is_stock(symbol) where it returns
is_stock(symbol) == symbol \notin WellKnownETFs

\* fifos_islong raises KeyError on an absent asset
fifos_islong_raises(map, asset) == asset \notin DOMAIN map

fifos_islong(map, asset) == map[asset][1][2] > 0

\* line 246: the contract multiplier of an option
Multiplier == 100

\* line 245: strptime(expire, '%m/%d/%Y').strftime('%y-%m-%d'), on the
\* dates the rows carry; any other text makes strptime raise ValueError
ExpireTable == [e \in {"01/15/2021"} |-> "21-01-15"]

\* lines 242-249: the asset key
AssetKey(r) ==
    IF r.expire /= "nan"
    THEN <<r.symbol, r.callput, r.strike[1], ExpireTable[r.expire]>>
    ELSE <<r.symbol>>

\* lines 256-258: the quantity with its sign.  `or` and `and` short-circuit:
\* the ledger is only looked at when Buy/Sell is not 'Sell'.
Negated(r, map, asset) ==
    \/ r.buysell = "Sell"
    \/ r.tsubcode \in ExpirationSubcodes /\ fifos_islong(map, asset)

SignedQuantity(r, map, asset) ==
    IF Negated(r, map, asset) THEN - r.quantity[1] ELSE r.quantity[1]

\* line 260 with the fees left out
UnitPrice_NoFees(amount, fees, quantity) == abs(amount) \div abs(quantity)

\* line 260: abs((amount - fees) / quantity).  The rows drawn make the
\* division exact.
UnitPrice(amount, fees, quantity) == abs(amount - fees) \div abs(quantity)

\* lines 191-240: TRUE when the Money Movement branch raises
MoneyMovementRaises(r) ==
    \/ r.tsubcode \in {"Deposit", "Credit Interest", "Balance Adjustment", "Dividend"}
       /\ r.fees /= 0
    \/ r.tsubcode \in {"Fee", "Withdrawal"} /\ (r.amount >= 0 \/ r.fees /= 0)

\* What one loop iteration finds out before it touches the ledger.
Raised(ref) ==
    [raised |-> TRUE, traded |-> FALSE, ref |-> ref, asset |-> <<>>,
     quantity |-> 0, price |-> 0, check_stock |-> FALSE]

NoTrade(ref) ==
    [raised |-> FALSE, traded |-> FALSE, ref |-> ref, asset |-> <<>>,
     quantity |-> 0, price |-> 0, check_stock |-> FALSE]

\* lines 241-260: a Trade or Receive Deliver row; price is the row's Price
\* with nan read as 0
TradeEvent(r, map, ref, price) ==
    LET isopt == r.expire /= "nan"
    IN  IF isopt /\ (r.expire \notin DOMAIN ExpireTable \/ r.strike = NaN)
        THEN Raised(ref)
        ELSE IF ~isopt /\ is_stock_raises(r.symbol)
        THEN Raised(ref)
        ELSE
        LET asset       == AssetKey(r)
            price1      == IF isopt THEN price * Multiplier ELSE price
            check_stock == IF isopt THEN FALSE ELSE is_stock(r.symbol)
        IN  IF /\ r.buysell /= "Sell"
               /\ r.tsubcode \in ExpirationSubcodes
               /\ fifos_islong_raises(map, asset)
            THEN Raised(ref)
            ELSE IF r.quantity = NaN /\ r.tsubcode \notin ExpirationSubcodes
            THEN Raised(ref)
            ELSE
            LET quantity == SignedQuantity(r, map, asset)
            IN  IF check_trade(r.tsubcode, - (quantity * price1), r.amount)
                THEN Raised(ref)
                ELSE IF quantity = 0
                THEN Raised(ref)
                ELSE [raised |-> FALSE, traded |-> TRUE, ref |-> ref,
                      asset |-> asset, quantity |-> quantity,
                      price |-> UnitPrice(r.amount, r.fees, quantity),
                      check_stock |-> check_stock]

\* lines 159-260: one row, up to the fifo_add call
Event(r, map, ref) ==
    LET ref2 == IF ref = "None" THEN r.account_ref ELSE ref
    IN  IF check_tcode(r.tcode, r.tsubcode, r.description)
        THEN Raised(ref)
        ELSE IF check_param(r.buysell, r.openclose, r.callput)
        THEN Raised(ref)
        ELSE IF r.account_ref /= ref2
        THEN Raised(ref2)
        ELSE IF Len(r.quantity) = 2
        THEN Raised(ref2)
        ELSE
        LET price == IF r.price = NaN THEN 0 ELSE r.price[1]
        IN  IF price < 0
            THEN Raised(ref2)
            ELSE IF r.tcode = "Money Movement"
            THEN IF MoneyMovementRaises(r) THEN Raised(ref2) ELSE NoTrade(ref2)
            ELSE TradeEvent(r, map, ref2, price)

(* ---------------------------- the rows drawn --------------------------- *)

\* The longest history: len(wk) <= MaxRows.
MaxRows == 2

RowQuantities == 1..MaxRowQty

RECURSIVE Factorial(_)
Factorial(n) == IF n <= 1 THEN 1 ELSE n * Factorial(n - 1)

\* Fees are 0 or a multiple of every quantity drawn, so that line 260 divides
\* without a remainder.
RowFees == {0, Factorial(MaxRowQty)}

Account == "5WT00001"

Row(tcode, tsubcode, symbol, buysell, openclose, quantity, expire, strike, callput, price, fees, amount, description, account_ref) ==
    [tcode |-> tcode, tsubcode |-> tsubcode, symbol |-> symbol,
     buysell |-> buysell, openclose |-> openclose, quantity |-> quantity,
     expire |-> expire, strike |-> strike, callput |-> callput,
     price |-> price, fees |-> fees, amount |-> amount,
     description |-> description, account_ref |-> account_ref]

\* The Amount the broker reports for a trade: what is paid for a purchase is
\* negative, what is received for a sale is positive.
Cash(buysell, q, price) == IF buysell = "Sell" THEN q * price ELSE - (q * price)

Subcode(buysell, openclose) ==
    IF buysell = "Buy"
    THEN (IF openclose = "Open" THEN "Buy to Open" ELSE "Buy to Close")
    ELSE (IF openclose = "Open" THEN "Sell to Open" ELSE "Sell to Close")

\* Stock and ETF trades, free of fees, at two prices.
StockRows ==
    { Row("Trade", Subcode(l[1], l[2]), sym, l[1], l[2], Num(q), "nan", NaN,
          "nan", Num(p), 0, Cash(l[1], q, p), "", Account) :
        l \in {<<"Buy", "Open">>, <<"Sell", "Close">>},
        sym \in {"AAPL", "SPY"}, q \in RowQuantities, p \in {2, 3} }

\* Trades of one option, with and without fees.
OptionRows ==
    { Row("Trade", Subcode(bs, oc), "AAPL", bs, oc, Num(q), "01/15/2021",
          Num(150), "C", Num(2), f, Cash(bs, q, 2 * Multiplier), "", Account) :
        bs \in {"Buy", "Sell"}, oc \in {"Open", "Close"},
        q \in RowQuantities, f \in RowFees }

\* Expiration, exercise and assignment of that option: no price, no amount,
\* and a Buy/Sell cell that may hold anything.
ExpirationRows ==
    { Row("Receive Deliver", l[1], "AAPL", l[2], "nan", Num(q), "01/15/2021",
          Num(150), "C", NaN, 0, 0, "", Account) :
        l \in {<<"Expiration", "nan">>, <<"Expiration", "Buy">>,
               <<"Expiration", "Sell">>, <<"Exercise", "nan">>,
               <<"Assignment", "nan">>},
        q \in RowQuantities }

MoneyRows ==
    { Row("Money Movement", "Dividend", "AAPL", "nan", "nan", NaN, "nan", NaN,
          "nan", NaN, 0, 5, "", Account),
      Row("Money Movement", "Fee", "AAPL", "nan", "nan", NaN, "nan", NaN,
          "nan", NaN, 0, -1, "", Account) }

\* One row for every kind of violation the loop raises on.
GoodStock ==
    Row("Trade", "Buy to Open", "AAPL", "Buy", "Open", Num(1), "nan", NaN,
        "nan", Num(2), 0, -2, "", Account)

BadRows ==
    { [GoodStock EXCEPT !.tcode = "Bogus"],
      [GoodStock EXCEPT !.tsubcode = "Expiration"],
      [GoodStock EXCEPT !.buysell = "Hold"],
      [GoodStock EXCEPT !.account_ref = "5WT00002"],
      [GoodStock EXCEPT !.quantity = Half(1)],
      [GoodStock EXCEPT !.price = Num(-2), !.amount = 2],
      [GoodStock EXCEPT !.symbol = "XYZ"],
      [GoodStock EXCEPT !.amount = -3],
      [GoodStock EXCEPT !.quantity = Num(0), !.amount = 0],
      [GoodStock EXCEPT !.expire = "01/15/2021"],
      Row("Money Movement", "Balance Adjustment", "", "nan", "nan", NaN, "nan",
          NaN, "nan", NaN, 0, -1, "Something else", Account),
      Row("Money Movement", "Dividend", "AAPL", "nan", "nan", NaN, "nan", NaN,
          "nan", NaN, 1, 5, "", Account) }

Rows == StockRows \cup OptionRows \cup ExpirationRows \cup MoneyRows \cup BadRows

(* ------------------------- the loop of check() ------------------------- *)

\* Date/Time values are drawn from 1..MaxTime.
MaxTime == 2

\* The most files main() is given.
MaxFiles == 2

\* A Date/Time column of n rows, by row index 0..n-1, in any order.
FileTimes(n) == [0..(n - 1) -> 1..MaxTime]

\* The Date/Time column of a history as the header comment asks for it
\* (lines 11-12): the newest entry on top.
NewestFirst(n) == [k \in 0..(n - 1) |-> n - k]

\* the ledger map is shared between the runs in place of line 140
NewLedger_Shared(old) == old

\* line 140: fifos = {}
NewLedger(old) == EmptyMap

\* line 153: range(len(wk) - 1, -1, -1) starts at the last row ...
FirstIndex(n) == n - 1

\* a step of -2 in place of -1 on line 153
NextIndex_Skip(k) == k - 2

\* ... and steps back by one
NextIndex(k) == k - 1

\* the else of lines 265-266 left out
Bucket_NoElse(check_stock, stocks, other, local) ==
    IF check_stock THEN <<stocks + local, other>> ELSE <<stocks, other>>

\* lines 263-266: <<pnl_stocks, pnl>> after a value was returned
Bucket(check_stock, stocks, other, local) ==
    IF check_stock THEN <<stocks + local, other>> ELSE <<stocks, other + local>>

\* A non-option row on a well known stock.
IsStockRow(r) == r.expire = "nan" /\ r.symbol \in WellKnownStocks

\* lines 140-153: check(wk, year) is entered on a history of n rows with
\* the Date/Time column times, after f other files
StartCheck(n, times, f) ==
    /\ fifos = NewLedger(EmptyMap)
    /\ call = NoCall
    /\ before = EmptyMap
    /\ local_pnl = 0
    /\ net = EmptyMap
    /\ book = EmptyMap
    /\ returned = <<0, 0>>
    /\ pnl_stocks = 0
    /\ pnl = 0
    /\ check_account_ref = "None"
    /\ wk_len = n
    /\ wk_times = times
    /\ datetime = 0
    /\ log = <<>>
    /\ i = FirstIndex(n)
    /\ pc = "loop"
    /\ row = NoRow
    /\ files = f

\* One history, newest entry on top.
InitCheck == \E n \in 0..MaxRows : StartCheck(n, NewestFirst(n), 0)

\* lines 153-266: one iteration of the loop on row r.  A raise ends the run
\* with the ledger as the previous row left it.
Iteration(r) ==
    LET e == Event(r, fifos, check_account_ref)
        res == fifo_add(fifos, e.quantity, e.price, e.asset)
        sums == Bucket(e.check_stock, pnl_stocks, pnl, res.pnl)
    IN  /\ row' = r
        /\ datetime' = wk_times[i]
        /\ log' = Append(log, [i |-> i, datetime |-> wk_times[i],
                               called |-> e.traded])
        /\ check_account_ref' = e.ref
        /\ before' = fifos
        /\ UNCHANGED <<wk_len, wk_times, files>>
        /\ IF e.raised
           THEN /\ pc' = "aborted"
                /\ call' = NoCall
                /\ UNCHANGED <<fifos, local_pnl, pnl_stocks, pnl, i, net, book,
                               returned>>
           ELSE IF ~e.traded
           THEN /\ i' = NextIndex(i)
                /\ call' = NoCall
                /\ UNCHANGED <<fifos, local_pnl, pnl_stocks, pnl, pc, net, book,
                               returned>>
           ELSE /\ fifos' = res.fifos
                /\ local_pnl' = res.pnl
                /\ call' = [kind |-> "fifo_add", asset |-> e.asset,
                            quantity |-> e.quantity, price |-> e.price]
                /\ net' = SetFifo(net, e.asset, NetOf(e.asset) + e.quantity)
                /\ book' = SetFifo(book, e.asset,
                               BookOf(e.asset) + res.pnl + e.quantity * e.price)
                /\ returned' = IF IsStockRow(r)
                               THEN <<returned[1] + res.pnl, returned[2]>>
                               ELSE <<returned[1], returned[2] + res.pnl>>
                /\ pnl_stocks' = sums[1]
                /\ pnl' = sums[2]
                /\ i' = NextIndex(i)
                /\ pc' = pc

\* The loop reads the row at index i from a set of rows.
Process(RowSet) == pc = "loop" /\ i >= 0 /\ \E r \in RowSet : Iteration(r)

ProcessRow == Process(Rows)

\* lines 268-286: the loop is over and the totals are printed
Report ==
    /\ pc = "loop" /\ i < 0
    /\ pc' = "done"
    /\ UNCHANGED <<fifos, local_pnl, pnl_stocks, pnl, check_account_ref, i,
                   row, call, before, net, book, returned, wk_len, wk_times,
                   datetime, log, files>>

NextCheck == ProcessRow \/ Report

SpecCheck == InitCheck /\ [][NextCheck]_vars

(* ------------------- histories in any order of dates ------------------- *)

\* A purchase and a sale of one stock, a dividend and a row that raises.
OrderRows ==
    { GoodStock,
      Row("Trade", "Sell to Close", "AAPL", "Sell", "Close", Num(1), "nan", NaN,
          "nan", Num(3), 0, 3, "", Account),
      Row("Money Movement", "Dividend", "AAPL", "nan", "nan", NaN, "nan", NaN,
          "nan", NaN, 0, 5, "", Account),
      [GoodStock EXCEPT !.tcode = "Bogus"] }

\* One history whose Date/Time column is in any order.
InitOrder == \E n \in 0..MaxRows : \E times \in FileTimes(n) : StartCheck(n, times, 0)

ProcessOrderRow == Process(OrderRows)

NextOrder == ProcessOrderRow \/ Report

SpecOrder == InitOrder /\ [][NextOrder]_vars

(* -------------------------------- main() ------------------------------- *)

MainRows == StockRows \cup MoneyRows \cup {[GoodStock EXCEPT !.tcode = "Bogus"]}

\* main() is given 1..MaxFiles files and enters check() on the first
InitMain == \E n \in 0..MaxRows : StartCheck(n, NewestFirst(n), 0)

ProcessMainRow == Process(MainRows)

\* lines 307-309: check() returned and main() calls it on the next file;
\* lines 140-153 set the locals of the new call
NextFile ==
    /\ pc = "done" /\ files + 1 < MaxFiles
    /\ \E n \in 0..MaxRows :
        /\ wk_len' = n
        /\ wk_times' = NewestFirst(n)
        /\ i' = FirstIndex(n)
    /\ files' = files + 1
    /\ fifos' = NewLedger(fifos)
    /\ call' = NoCall
    /\ before' = EmptyMap
    /\ local_pnl' = 0
    /\ net' = EmptyMap
    /\ book' = EmptyMap
    /\ returned' = <<0, 0>>
    /\ pnl_stocks' = 0
    /\ pnl' = 0
    /\ check_account_ref' = "None"
    /\ datetime' = 0
    /\ log' = <<>>
    /\ pc' = "loop"
    /\ row' = NoRow

NextMain == ProcessMainRow \/ Report \/ NextFile

SpecMain == InitMain /\ [][NextMain]_vars

(* --------------------- the last call, for the claims ------------------ *)

Called == call.kind = "fifo_add"

\* The called asset's queue before and after the call.
OldQ == Queue(before, call.asset)

NewQ == Queue(fifos, call.asset)

\* All lots of the queue are long, or all are short; none is zero.
AllLong(fifo) == \A j \in 1..Len(fifo) : fifo[j][2] > 0

AllShort(fifo) == \A j \in 1..Len(fifo) : fifo[j][2] < 0

OneSided(fifo) == AllLong(fifo) \/ AllShort(fifo)

\* The quantity closes (part of) the position the queue holds.
Opposite(fifo, quantity) ==
    \/ AllLong(fifo) /\ quantity < 0
    \/ AllShort(fifo) /\ quantity > 0

RECURSIVE SumQty(_)
SumQty(fifo) == IF fifo = <<>> THEN 0 ELSE fifo[1][2] + SumQty(Tail(fifo))

Min(a, b) == IF a <= b THEN a ELSE b

\* The FIFO reference value: lots oldest first until `left` is used up.
RECURSIVE RefMatch(_, _, _)
RefMatch(fifo, left, price) ==
    IF fifo = <<>> \/ left = 0 THEN 0
    ELSE LET lot == fifo[1]
             m   == Min(left, abs(lot[2]))
             one == IF lot[2] > 0 THEN m * (price - lot[1])
                                  ELSE m * (lot[1] - price)
         IN  one + RefMatch(Tail(fifo), left - m, price)

RefPnl(fifo, quantity, price) ==
    IF fifo /= <<>> /\ Opposite(fifo, quantity)
    THEN RefMatch(fifo, abs(quantity), price)
    ELSE 0

(* ------------------------------- claims ------------------------------- *)

\* C1: on a queue whose lots all have the same non-zero sign, a call with a
\* non-zero quantity returns the FIFO reference value (0 when nothing matches).
C1_PnlIsFifoReference ==
    (Called /\ call.quantity /= 0 /\ OneSided(OldQ))
        => local_pnl = RefPnl(OldQ, call.quantity, call.price)

\* C1 witness: a call that closed two lots at once with a non-zero result.
C1_Witness ==
    /\ Called /\ Len(OldQ) = 2 /\ Opposite(OldQ, call.quantity)
    /\ abs(call.quantity) > abs(OldQ[1][2])
    /\ OldQ[1][1] /= OldQ[2][1]
    /\ local_pnl /= 0

\* C2: a closing call removes or reduces a prefix of the queue: k lots are
\* removed whole, at most the next one is reduced, and the rest keep their
\* price, quantity and order; the magnitude taken equals what the call
\* brought, unless the queue ran out.
C2_OldestFirst ==
    (Called /\ OldQ /= <<>> /\ Opposite(OldQ, call.quantity)) =>
        \E k \in 0..Len(OldQ) :
            LET gone == abs(SumQty(SubSeq(OldQ, 1, k)))
            IN  IF k = Len(OldQ)
                THEN /\ gone <= abs(call.quantity)
                     /\ \A j \in 1..Len(NewQ) : NewQ[j][2] * call.quantity > 0
                ELSE /\ Len(NewQ) = Len(OldQ) - k
                     /\ \A j \in 2..Len(NewQ) : NewQ[j] = OldQ[k + j]
                     /\ NewQ[1][1] = OldQ[k + 1][1]
                     /\ NewQ[1][2] * OldQ[k + 1][2] > 0
                     /\ abs(NewQ[1][2]) <= abs(OldQ[k + 1][2])
                     /\ gone + abs(OldQ[k + 1][2]) - abs(NewQ[1][2])
                            = abs(call.quantity)

\* C2 witness: the older lot was removed and the younger one reduced.
C2_Witness ==
    /\ Called /\ Len(OldQ) = 2 /\ Opposite(OldQ, call.quantity)
    /\ Len(NewQ) = 1
    /\ NewQ[1][1] = OldQ[2][1]
    /\ abs(NewQ[1][2]) < abs(OldQ[2][2])
    /\ OldQ[1][1] /= OldQ[2][1]

\* C3: whenever the signed quantities passed for an asset sum to zero, the
\* asset key is absent from the ledger map.
C3_FlatRemovesKey ==
    \A a \in Assets : NetOf(a) = 0 => a \notin DOMAIN fifos

\* C3 witness: a call brought a two-lot position back to flat.
C3_Witness ==
    /\ Called /\ Len(OldQ) = 2
    /\ NetOf(call.asset) = 0
    /\ call.asset \notin DOMAIN fifos

\* C4: the lots of one asset key are all strictly positive or all strictly
\* negative.
C4_OneSided ==
    \A a \in DOMAIN fifos : OneSided(fifos[a])

\* C4 witness: a call flipped a long position of two lots into a short one.
C4_Witness ==
    /\ Called /\ Len(OldQ) = 2 /\ AllLong(OldQ)
    /\ NewQ /= <<>> /\ AllShort(NewQ)

\* C5: a closing quantity smaller than the front lot leaves the front lot in
\* place with its price and with quantity front + q; nothing else changes.
C5_PartialClose ==
    (/\ Called /\ OldQ /= <<>> /\ call.quantity /= 0
     /\ OldQ[1][2] * call.quantity < 0
     /\ abs(call.quantity) < abs(OldQ[1][2]))
        => /\ call.asset \in DOMAIN fifos
           /\ NewQ = <<<<OldQ[1][1], OldQ[1][2] + call.quantity>>>> \o Tail(OldQ)
           /\ \A a \in DOMAIN before : a /= call.asset =>
                  a \in DOMAIN fifos /\ fifos[a] = before[a]

\* C5 witness: a partial close of the front lot of a two-lot queue.
C5_Witness ==
    /\ Called /\ Len(OldQ) = 2
    /\ OldQ[1][2] * call.quantity < 0
    /\ abs(call.quantity) < abs(OldQ[1][2])
    /\ Len(NewQ) = 2

\* C6: a closing quantity larger than the whole open position removes every
\* lot and leaves one lot {price of the call, q + sum of the old quantities}
\* of the sign of q.
C6_OverClose ==
    (/\ Called /\ OldQ /= <<>> /\ Opposite(OldQ, call.quantity)
     /\ abs(call.quantity) > abs(SumQty(OldQ)))
        => /\ NewQ = <<<<call.price, call.quantity + SumQty(OldQ)>>>>
           /\ NewQ[1][2] * call.quantity > 0

\* C6 witness: a two-lot position was over-closed.
C6_Witness ==
    /\ Called /\ Len(OldQ) = 2 /\ Opposite(OldQ, call.quantity)
    /\ abs(call.quantity) > abs(SumQty(OldQ))
    /\ Len(NewQ) = 1

\* C7: a non-zero quantity of the sign of the open lots, or on an asset
\* with no open position, returns 0 and appends one lot {price, quantity};
\* the lots already there are unchanged.
C7_SameDirectionAppends ==
    (/\ Called /\ call.quantity /= 0
     /\ \/ call.asset \notin DOMAIN before
        \/ AllLong(OldQ) /\ call.quantity > 0
        \/ AllShort(OldQ) /\ call.quantity < 0)
        => /\ local_pnl = 0
           /\ NewQ = OldQ \o <<<<call.price, call.quantity>>>>

\* C7 witness: a lot was added behind an open lot of another price.
C7_Witness ==
    /\ Called /\ Len(OldQ) = 1
    /\ OldQ[1][2] * call.quantity > 0
    /\ OldQ[1][1] /= call.price
    /\ Len(NewQ) = 2

\* C8: a call with quantity 0 returns 0 and leaves the ledger map as it was.
C8_ZeroIsNoOp ==
    (Called /\ call.quantity = 0) => (local_pnl = 0 /\ fifos = before)

\* The row of the last iteration led to a fifo_add call.
RowCalled == Called /\ row /= NoRow

\* The row's Price as check() reads it: nan is 0.
QuotedPrice == IF row.price = NaN THEN 0 ELSE row.price[1]

\* C9: an Expiration, Exercise or Assignment row with a positive Quantity on
\* an asset that has an open position passes a closing quantity to fifo_add,
\* negative on a long position and positive on a short one, whatever the
\* row's Buy/Sell holds.
C9_ExpirationCloses ==
    (/\ RowCalled /\ row.tsubcode \in ExpirationSubcodes
     /\ row.quantity[1] > 0
     /\ call.asset \in DOMAIN before)
        => /\ AllLong(before[call.asset]) => call.quantity < 0
           /\ AllShort(before[call.asset]) => call.quantity > 0

\* C10 as claimed: the price passed for an option row is Price * 100,
\* whatever the Fees.
C10_PriceIsQuoteTimes100 ==
    (RowCalled /\ row.expire /= "nan")
        => call.price = QuotedPrice * Multiplier

\* C10 as amended: the price passed for an option row is
\* |Amount - Fees| / |quantity|, which is |quantity * Price * 100 + Fees| /
\* |quantity| for the signed quantity passed, and Price * 100 when Fees = 0.
C10_PriceIsNetCashPerUnit ==
    (RowCalled /\ row.expire /= "nan")
        => /\ call.price * abs(call.quantity) = abs(row.amount - row.fees)
           /\ call.price * abs(call.quantity)
                  = abs(call.quantity * QuotedPrice * Multiplier + row.fees)
           /\ row.fees = 0 => call.price = QuotedPrice * Multiplier

\* C10 witness: an option purchase with fees, passed at more than Price * 100.
C10_Witness ==
    /\ RowCalled /\ row.expire /= "nan"
    /\ row.fees /= 0 /\ call.quantity > 1
    /\ call.price > QuotedPrice * Multiplier

(* ------------------------- claims on check() --------------------------- *)

\* The row read last carries one of the violations check() looks for.
UnknownCode ==
    \/ row.tcode \notin {"Money Movement", "Trade", "Receive Deliver"}
    \/ row.tcode = "Money Movement" /\ row.tsubcode \notin MoneySubcodes
    \/ row.tcode = "Trade" /\ row.tsubcode \notin TradeSubcodes
    \/ /\ row.tcode = "Receive Deliver"
       /\ row.tsubcode \notin TradeSubcodes \cup ExpirationSubcodes

BadParam ==
    \/ row.buysell \notin {"nan", "Buy", "Sell"}
    \/ row.openclose \notin {"nan", "Open", "Close"}
    \/ row.callput \notin {"nan", "C", "P"}

AccountChanged ==
    check_account_ref /= "None" /\ row.account_ref /= check_account_ref

FractionalQuantity == Len(row.quantity) = 2

NegativePrice == row.price /= NaN /\ row.price[1] < 0

UnknownSymbol ==
    /\ row.tcode \in {"Trade", "Receive Deliver"}
    /\ row.expire = "nan"
    /\ row.symbol \notin WellKnownETFs \cup WellKnownStocks

AmountMismatch ==
    /\ row.tcode \in {"Trade", "Receive Deliver"}
    /\ row.tsubcode \in TradeSubcodes
    /\ Len(row.quantity) = 1 /\ row.price /= NaN
    /\ LET unit == IF row.expire = "nan" THEN row.price[1]
                                         ELSE row.price[1] * Multiplier
       IN  row.amount /= Cash(row.buysell, row.quantity[1], unit)

RowViolation ==
    /\ row /= NoRow
    /\ \/ UnknownCode \/ BadParam \/ AccountChanged \/ FractionalQuantity
       \/ NegativePrice \/ UnknownSymbol \/ AmountMismatch

\* C11: a row with a violation ends the run: fifo_add is not called for it,
\* the ledger map stays as the row before left it, and after the abort no
\* row is read and no totals are printed.
C11_ViolationAborts ==
    /\ RowViolation => (pc = "aborted" /\ ~Called /\ fifos = before)
    /\ pc = "aborted" => ~ENABLED NextCheck

\* C11 witness: an amount that does not match ended a run that had opened
\* a position.
C11_Witness ==
    /\ pc = "aborted" /\ AmountMismatch
    /\ ~UnknownCode /\ ~BadParam /\ ~AccountChanged /\ ~UnknownSymbol
    /\ fifos /= EmptyMap /\ fifos = before

\* The file lists its rows newest first (header comment, lines 11-12).
FileNewestFirst ==
    \A a, b \in DOMAIN wk_times : a < b => wk_times[a] >= wk_times[b]

\* The trade events passed to fifo_add so far never step back in time.
PassedInTimeOrder ==
    \A j, k \in DOMAIN log :
        (j < k /\ log[j].called /\ log[k].called)
            => log[j].datetime <= log[k].datetime

\* C12 as stated: of any two trade events of a run, the one with the
\* earlier Date/Time is passed to fifo_add first, whatever the file order.
C12_Chronological == PassedInTimeOrder

\* C12 amended: the rows are read once each from the last row of the file
\* to the first, a finished run has read them all, and the trade events are
\* passed in time order when the file lists its rows newest first.
C12_ReverseFileOrder ==
    /\ \A k \in DOMAIN log :
          /\ log[k].i = wk_len - k
          /\ log[k].datetime = wk_times[log[k].i]
    /\ pc = "done" => Len(log) = wk_len
    /\ pc = "loop" => i = wk_len - Len(log) - 1
    /\ FileNewestFirst => PassedInTimeOrder

\* C12 witness: a finished run over a newest-first file passed two trade
\* events of different Date/Time.
C12_Witness ==
    /\ pc = "done" /\ Len(log) = 2 /\ FileNewestFirst
    /\ log[1].called /\ log[2].called
    /\ log[1].datetime < log[2].datetime

(* ----------------------- conservation in fifo_add ---------------------- *)

RECURSIVE SumValue(_)
\* sum of quantity * price over the lots of a queue
SumValue(fifo) ==
    IF fifo = <<>> THEN 0
    ELSE fifo[1][2] * fifo[1][1] + SumValue(Tail(fifo))

\* C13: for every asset the realized PnL returned so far equals the value
\* quantity * price of its open lots minus the sum of quantity * price over
\* its calls (book holds returned PnL plus quantity * price per call); with
\* no open lot the realized PnL is the net cash flow of the calls.
C13_CashConservation ==
    \A a \in Assets :
        /\ BookOf(a) = SumValue(Queue(fifos, a))
        /\ a \notin DOMAIN fifos => BookOf(a) = 0

\* C13 witness: a call consumed a whole lot at a different price, realized
\* a PnL and left a lot open.
C13_Witness ==
    /\ Called /\ OldQ /= <<>> /\ Opposite(OldQ, call.quantity)
    /\ abs(call.quantity) > abs(OldQ[1][2])
    /\ local_pnl /= 0 /\ NewQ /= <<>>

\* C14: for every asset the quantities of its open lots (0 when the key is
\* absent) add up to the sum of the signed quantities passed to fifo_add.
C14_QuantityConservation ==
    \A a \in Assets : SumQty(Queue(fifos, a)) = NetOf(a)

\* C14 witness: a call consumed the first of two lots and reduced the second.
C14_Witness ==
    /\ Called /\ Len(OldQ) = 2 /\ Opposite(OldQ, call.quantity)
    /\ abs(call.quantity) > abs(OldQ[1][2])
    /\ Len(NewQ) = 1 /\ NewQ[1][1] = OldQ[2][1]
    /\ NetOf(call.asset) = NewQ[1][2]

\* C15: no key of the ledger map maps to an empty queue, so a key is
\* present exactly when its queue holds a lot.
C15_NoEmptyQueue ==
    \A a \in DOMAIN fifos : fifos[a] /= <<>>

\* C15 witness: a call absorbed by the only lot emptied the queue and the
\* key is gone.
C15_Witness ==
    /\ Called /\ Len(OldQ) = 1 /\ call.quantity = -OldQ[1][2]
    /\ call.quantity /= 0
    /\ call.asset \notin DOMAIN fifos

\* The row read last is an Expiration, Exercise or Assignment of an asset
\* that had no open position.
FlatExpiration ==
    /\ row /= NoRow
    /\ row.tcode = "Receive Deliver"
    /\ row.tsubcode \in ExpirationSubcodes
    /\ AssetKey(row) \notin DOMAIN before

\* C16: an Expiration, Exercise or Assignment row for an asset without a
\* key in the ledger map aborts the run whatever its Buy/Sell field says:
\* fifo_add is not called and the asset gets no lot.
C16_FlatExpirationAborts ==
    FlatExpiration =>
        /\ pc = "aborted"
        /\ ~Called
        /\ AssetKey(row) \notin DOMAIN fifos

(* ---------------------- independence of the assets --------------------- *)

\* the ledger map cut down to one asset key
Only(map, asset) == [a \in (DOMAIN map) \cap {asset} |-> map[a]]

\* C17: a fifo_add call for one asset key keeps every other key with the
\* same queue and adds or removes no other key; the value returned and the
\* asset's new queue are those of the same call on a map that holds the
\* asset's queue alone.
C17_AssetsIndependent ==
    Called =>
        /\ \A a \in ((DOMAIN before) \cup (DOMAIN fifos)) \ {call.asset} :
              /\ a \in DOMAIN before
              /\ a \in DOMAIN fifos
              /\ fifos[a] = before[a]
        /\ LET alone == fifo_add(Only(before, call.asset), call.quantity,
                                 call.price, call.asset)
           IN  /\ local_pnl = alone.pnl
               /\ Queue(fifos, call.asset) = Queue(alone.fifos, call.asset)

\* C17 witness: a call closed one asset with a PnL and removed its key
\* while the other asset had an open lot.
C17_Witness ==
    /\ Called /\ local_pnl /= 0
    /\ call.asset \in DOMAIN before /\ call.asset \notin DOMAIN fifos
    /\ \E a \in TwoAssets \ {call.asset} :
          a \in DOMAIN before /\ a \in DOMAIN fifos /\ fifos[a] /= <<>>

(* ------------------------- buckets and runs ---------------------------- *)

\* C18: every value fifo_add returns goes into exactly one bucket,
\* pnl_stocks for a non-option trade on a stock symbol and pnl otherwise,
\* so that after every row pnl_stocks + pnl is the sum of the values
\* returned in the run (returned holds that sum per kind of event).
C18_BucketsSumToReturned ==
    /\ pnl_stocks = returned[1]
    /\ pnl = returned[2]
    /\ pnl_stocks + pnl = returned[1] + returned[2]

\* C18 witness: a stock trade closed with a PnL that went to pnl_stocks.
C18_Witness ==
    /\ Called /\ IsStockRow(row) /\ local_pnl /= 0
    /\ pnl_stocks = local_pnl /\ pnl = 0

\* C19: every run of check() starts from an empty ledger map: before the
\* first row of a file is read the map is empty, and the lots of the map
\* are the net of the quantities this run passed to fifo_add, whatever the
\* files before it left open.
C19_LedgerPrivateToRun ==
    /\ log = <<>> => fifos = EmptyMap
    /\ \A a \in (DOMAIN fifos) \cup (DOMAIN net) :
          SumQty(Queue(fifos, a)) = NetOf(a)
    /\ (Called /\ Len(log) = 1) =>
          /\ before = EmptyMap
          /\ local_pnl = 0
          /\ fifos = SetFifo(EmptyMap, call.asset,
                             <<<<call.price, call.quantity>>>>)

\* C19 witness: a later file's first trade event is a sale; it opened a
\* short lot of its own and realized nothing.
C19_Witness ==
    /\ files > 0 /\ Called /\ Len(log) = 1
    /\ call.quantity < 0
    /\ fifos = SetFifo(EmptyMap, call.asset, <<<<call.price, call.quantity>>>>)

====
